---- MODULE Spec2Model ----
(***************************************************************************)
(* Model of the pipeline orchestrator IPODataPipeline (src/pipeline.py).   *)
(* One object is constructed and run() is called on it up to MaxRuns       *)
(* times.  The file system (raw files, export files), the analytical store *)
(* (raw, staging and mart tables) and the connection handle persist from   *)
(* one call to the next.  Every loop iteration of a stage is one step; the *)
(* list a stage collects is a local that is gone when the stage returns.   *)
(* Files, raw tables and the mart table are abstracted to their row or     *)
(* line counts, staging tables to their existence.                         *)
(***************************************************************************)
EXTENDS Integers, Sequences, FiniteSets

\* ---- bounds ----
MaxRuns == 2
MaxRows == 1
MaxDate == 2
MaxHour == 2
MaxMartRows == 2

\* ---- program constants ----
NumSources == 3
Absent == -1

Sources == 1..NumSources
Dates == 1..MaxDate
RowCounts == 1..MaxRows
Hours == 1..MaxHour
MartRows == 1..MaxMartRows

\* The names a file under data/staged can have: <<d, 0>> is the name that
\* carries the date d alone, <<d, h>> one that would also carry the hour h.
Paths == Dates \X (0..MaxHour)

VARIABLES
    pc,               \* position inside run(), or between calls
    idx,              \* loop index of the stage being executed
    runs,             \* number of run() calls made so far
    today,            \* the date of the latest export (line 278), 0 before the first
    duckdb_conn,      \* self.duckdb_conn: 0 is None, h > 0 the handle opened by call h
    openConns,        \* handles that are open in the store
    opensInRun,       \* connections opened during the current call
    closesInRun,      \* close() invocations during the current call
    rawDirExists,     \* data/raw exists
    rawFile,          \* data/raw/<csv>: Absent or the number of data rows
    rawTable,         \* raw_* tables of the store: Absent or row count
    stgTable,         \* stg_* tables of the store: TRUE iff the table exists
    martTable,        \* mart_ipo_analytics_1: Absent or row count
    stagedDirExists,  \* data/staged exists
    exportFile,       \* the files under data/staged, by name: Absent or line count
    failed_scrapers,  \* local of stage_1_web_scraping
    loaded_tables,    \* local of stage_2_csv_to_raw_tables
    processed_tables, \* local of stage_3_data_cleaning
    exc,              \* "none", or the place whose exception is propagating
    log,              \* events of the current call, in order
    last,             \* outcome of the latest step of the current call
    pre,              \* the staged directory as it was when the current call began
    result            \* what the latest call of run() handed to its caller

vars == <<pc, idx, runs, today, duckdb_conn, openConns, opensInRun,
          closesInRun, rawDirExists, rawFile, rawTable, stgTable, martTable,
          stagedDirExists, exportFile, failed_scrapers, loaded_tables,
          processed_tables, exc, log, last, pre, result>>

connVars == <<duckdb_conn, openConns, opensInRun, closesInRun>>
fsVars == <<rawDirExists, rawFile, stagedDirExists, exportFile>>
storeVars == <<rawTable, stgTable, martTable>>
localVars == <<failed_scrapers, loaded_tables, processed_tables>>

Snapshot == [stagedDirExists |-> stagedDirExists, exportFile |-> exportFile]

\* Nothing has been handed to a caller: no call yet, or the call is under way.
NoResult == [status |-> "none", outcomes |-> <<>>]

Init ==
    /\ pc = "idle"
    /\ idx = 0
    /\ runs = 0
    /\ today = 0
    /\ duckdb_conn = 0
    /\ openConns = {}
    /\ opensInRun = 0
    /\ closesInRun = 0
    /\ rawDirExists = FALSE
    /\ rawFile = [s \in Sources |-> Absent]
    /\ rawTable = [s \in Sources |-> Absent]
    /\ stgTable = [s \in Sources |-> FALSE]
    /\ martTable = Absent
    /\ stagedDirExists = FALSE
    /\ exportFile = [p \in Paths |-> Absent]
    /\ failed_scrapers = <<>>
    /\ loaded_tables = <<>>
    /\ processed_tables = <<>>
    /\ exc = "none"
    /\ log = <<>>
    /\ last = "none"
    /\ pre = Snapshot
    /\ result = NoResult

\* The raw directory as a call finds it: the files of the sources in gone
\* have been removed since the previous call.  The directory is outside the
\* program's control between calls; lines 131-135 reckon with a file that is
\* not there.
RawDirFound(files, gone) ==
    [s \in Sources |-> IF s \in gone THEN Absent ELSE files[s]]

\* run() is entered, lines 292-301, with the files of some of the sources in
\* removable gone from the raw directory.
RunBegins(removable) ==
    /\ pc \in {"idle", "returned", "raised"}
    /\ runs < MaxRuns
    /\ runs' = runs + 1
    /\ pc' = "connect"
    /\ idx' = 0
    /\ opensInRun' = 0
    /\ closesInRun' = 0
    /\ failed_scrapers' = <<>>
    /\ loaded_tables' = <<>>
    /\ processed_tables' = <<>>
    /\ exc' = "none"
    /\ log' = <<>>
    /\ last' = "none"
    /\ pre' = Snapshot
    /\ result' = NoResult
    /\ \E gone \in SUBSET removable : rawFile' = RawDirFound(rawFile, gone)
    /\ UNCHANGED <<today, duckdb_conn, openConns, rawDirExists,
                   stagedDirExists, exportFile, storeVars>>

\* A call that finds the raw directory as the previous call left it.
RunStart == RunBegins({})

\* A call that may find raw files removed since the previous call.
RunStartAfterRemoval == RunBegins({s \in Sources : rawFile[s] # Absent})

\* The statements of the try block of run(), lines 303-310, in order: where
\* control goes when the k-th of them returns (k = 0 is connect_duckdb).
AfterStage_swapped(k) ==
    CASE k = 0 -> "call_stage1"
      [] k = 1 -> "stage3"
      [] k = 3 -> "stage2"
      [] k = 2 -> "call_stage4"
      [] k = 4 -> "call_export"
      [] OTHER -> "finally"

AfterStage(k) ==
    CASE k = 0 -> "call_stage1"
      [] k = 1 -> "stage2"
      [] k = 2 -> "stage3"
      [] k = 3 -> "call_stage4"
      [] k = 4 -> "call_export"
      [] OTHER -> "finally"

\* A stage returns to run(), which goes on at p.  The list the stage
\* collected is gone with its frame.  When p is the load or the script loop,
\* its prologue (lines 113-127, 170-183), which only logs and sets up an
\* empty list, is taken in the same step.
Proceed(p) ==
    /\ pc' = p
    /\ idx' = IF p \in {"stage2", "stage3"} THEN 1 ELSE 0
    /\ log' = CASE p = "stage2" -> Append(log, <<"stage", 2>>)
                [] p = "stage3" -> Append(log, <<"stage", 3>>)
                [] OTHER -> log
    /\ failed_scrapers' = <<>>
    /\ loaded_tables' = <<>>
    /\ processed_tables' = <<>>
    /\ exc' = exc

\* An exception leaves a stage: the except clause of run(), lines 322-327,
\* logs it and re-raises, and control is at the finally clause.
Raise(e) ==
    /\ pc' = "finally"
    /\ exc' = e

\* self.connect_duckdb(): either the store opens and the handle is kept in
\* self.duckdb_conn, or mkdir / duckdb.connect raises and the field keeps
\* whatever it held.
connect_duckdb ==
    /\ pc = "connect"
    /\ \E ok \in BOOLEAN :
        IF ok
        THEN /\ duckdb_conn' = runs
             /\ openConns' = openConns \cup {runs}
             /\ opensInRun' = opensInRun + 1
             /\ log' = Append(log, <<"open", runs>>)
             /\ last' = "ok"
             /\ pc' = AfterStage(0)
             /\ exc' = exc
        ELSE /\ Raise("Connect")
             /\ last' = "raises"
             /\ UNCHANGED <<duckdb_conn, openConns, opensInRun, log>>
    /\ UNCHANGED <<idx, runs, today, closesInRun, fsVars, storeVars, localVars,
                   pre, result>>

\* run() line 306 and the part of stage_1_web_scraping that runs before the
\* loop (lines 78-91): the raw directory is created and the three scraper
\* objects are constructed outside any try, so an error here propagates.
stage_1_setup ==
    /\ pc = "call_stage1"
    /\ log' = Append(log, <<"stage", 1>>)
    /\ \E ok \in BOOLEAN :
        IF ok
        THEN /\ rawDirExists' = TRUE
             /\ failed_scrapers' = <<>>
             /\ idx' = 1
             /\ last' = "ok"
             /\ pc' = "stage1"
             /\ exc' = exc
        ELSE /\ Raise("Extraction")
             /\ last' = "raises"
             /\ UNCHANGED <<rawDirExists, failed_scrapers, idx>>
    /\ UNCHANGED <<runs, today, connVars, rawFile, stagedDirExists, exportFile,
                   storeVars, loaded_tables, processed_tables, pre, result>>

\* The for loop of lines 93-104: the except clause swallows the error, so
\* the next scraper is taken whether or not this one raised.
NextScraper(i, raised) == i + 1

\* One iteration of the scraper loop, lines 93-104.  Either scrape() returns
\* a result set of r rows and save_to_csv writes it over the raw file, or one
\* of the two raises before anything is written and the name is recorded.
ScraperOutcomes == {"ok", "scrape_raises", "save_raises"}

\* The raw file after the iteration: save_to_csv (line 99) is the only
\* statement that writes it, and it is reached only when scrape() returned.
\* len(data), line 101: the rows of the result set scrape() returned; there
\* is no result set when the iteration raised.
ResultRows(outcome) == IF outcome = "ok" THEN RowCounts ELSE {0}

SavedFile_unlink(old, r, outcome) == IF outcome = "ok" THEN r ELSE Absent

SavedFile(old, r, outcome) == IF outcome = "ok" THEN r ELSE old

stage_1_scraper ==
    /\ pc = "stage1"
    /\ idx \in Sources
    /\ log' = Append(log, <<"scrape", idx>>)
    /\ \E outcome \in ScraperOutcomes :
        /\ last' = outcome
        /\ \E r \in ResultRows(outcome) :
              rawFile' = [rawFile EXCEPT ![idx] = SavedFile(rawFile[idx], r, outcome)]
        /\ failed_scrapers' = IF outcome = "ok"
                              THEN failed_scrapers
                              ELSE Append(failed_scrapers, idx)
        /\ idx' = NextScraper(idx, outcome # "ok")
    /\ UNCHANGED <<pc, runs, today, connVars, rawDirExists, stagedDirExists,
                   exportFile, storeVars, loaded_tables, processed_tables,
                   exc, pre, result>>

\* Lines 106-110: "if failed_scrapers:" chooses between a warning and an
\* info message; neither branch raises.
Stage1Raises_any(failed) == failed # <<>>

Stage1Raises(failed) == FALSE

\* Lines 106-110: the stage only logs which scrapers failed, and returns.
stage_1_end ==
    /\ pc = "stage1"
    /\ idx = NumSources + 1
    /\ IF Stage1Raises(failed_scrapers)
       THEN /\ Raise("Extraction")
            /\ UNCHANGED <<idx, log, localVars>>
       ELSE Proceed(AfterStage(1))
    /\ UNCHANGED <<runs, today, connVars, fsVars, storeVars, last, pre,
                   result>>

\* The for loop of lines 129-161: "continue" on an absent file, and the
\* except clause swallows any error, so the next pair is always taken.
NextCsv_break(i, raised) == IF raised THEN NumSources + 1 ELSE i + 1

NextCsv(i, raised) == i + 1

\* One iteration of the load loop, lines 129-161.  An absent file is
\* skipped.  Otherwise DROP TABLE IF EXISTS, CREATE TABLE ... AS SELECT and
\* SELECT COUNT(*) run in that order and any of them may raise.  The table
\* gets one row per well-formed data row of the file.
LoadOutcomes == {"ok", "drop_raises", "create_raises", "count_raises"}

LoadedTable_rollback(old, file, outcome) ==
    CASE outcome = "absent" -> old
      [] outcome = "drop_raises" -> old
      [] outcome = "create_raises" -> old
      [] OTHER -> file

LoadedTable_dropfirst(old, file, outcome) ==
    CASE outcome = "absent" -> Absent
      [] outcome = "drop_raises" -> old
      [] outcome = "create_raises" -> Absent
      [] OTHER -> file

LoadedTable_append(old, file, outcome) ==
    CASE outcome = "absent" -> old
      [] outcome = "drop_raises" -> old
      [] outcome = "create_raises" -> Absent
      [] OTHER -> IF old = Absent THEN file ELSE old + file

LoadedTable(old, file, outcome) ==
    CASE outcome = "absent" -> old
      [] outcome = "drop_raises" -> old
      [] outcome = "create_raises" -> Absent
      [] OTHER -> file

stage_2_load ==
    /\ pc = "stage2"
    /\ idx \in Sources
    /\ log' = Append(log, <<"load", idx>>)
    /\ \E outcome \in LoadOutcomes \cup {"absent"} :
        /\ outcome = "absent" <=> rawFile[idx] = Absent
        /\ last' = outcome
        /\ rawTable' = [rawTable EXCEPT
                          ![idx] = LoadedTable(rawTable[idx], rawFile[idx], outcome)]
        /\ loaded_tables' = IF outcome = "ok"
                            THEN Append(loaded_tables, idx)
                            ELSE loaded_tables
        /\ idx' = NextCsv(idx, outcome \notin {"ok", "absent"})
    /\ UNCHANGED <<pc, runs, today, connVars, fsVars, stgTable, martTable,
                   failed_scrapers, processed_tables, exc, pre, result>>

\* Line 163: "if loaded_tables:".
Stage2Succeeded_all(tables) == Len(tables) = NumSources

Stage2Succeeded_always(tables) == TRUE

Stage2Succeeded(tables) == tables # <<>>

\* Lines 163-166: the stage returns, or raises RuntimeError iff nothing was
\* loaded.
stage_2_end ==
    /\ pc = "stage2"
    /\ idx = NumSources + 1
    /\ IF Stage2Succeeded(loaded_tables)
       THEN Proceed(AfterStage(2))
       ELSE /\ Raise("Load")
            /\ UNCHANGED <<idx, log, localVars>>
    /\ UNCHANGED <<runs, today, connVars, fsVars, storeVars, last, pre,
                   result>>

\* The for loop of lines 185-213, as in the load loop.
NextScript_break(i, raised) == IF raised THEN NumSources + 1 ELSE i + 1

NextScript(i, raised) == i + 1

\* One iteration of the script loop, lines 185-213.
\*   missing       the script file does not exist: skipped (lines 189-191)
\*   read_raises   open/read raises
\*   exec_raises   execute raises and the staging table is as it was
\*   exec_dropped  execute raises after the script dropped its table
\*   no_table      execute returns but no table of the derived name exists
\*   count_raises  the table exists but SELECT COUNT(*) raises
\*   ok            the table exists and its rows were counted
\* A script whose raw table was never loaded cannot execute without error.
ScriptOutcomes == {"missing", "read_raises", "exec_raises", "exec_dropped",
                   "no_table", "count_raises", "ok"}

ScriptNeedsRaw == {"no_table", "count_raises", "ok"}

\* What the script leaves of its staging table.
StagedTable(old, outcome) ==
    CASE outcome \in {"missing", "read_raises", "exec_raises"} -> old
      [] outcome \in {"exec_dropped", "no_table"} -> FALSE
      [] OTHER -> TRUE

\* The append of line 210 is reached only when execute (line 199) and the
\* SELECT COUNT(*) on the derived table name (lines 202-207) both returned.
ScriptCounted_executed(outcome) == outcome \in {"ok", "no_table", "count_raises"}

ScriptCounted(outcome) == outcome = "ok"

stage_3_script ==
    /\ pc = "stage3"
    /\ idx \in Sources
    /\ log' = Append(log, <<"script", idx>>)
    /\ \E outcome \in ScriptOutcomes :
        /\ outcome \in ScriptNeedsRaw => rawTable[idx] # Absent
        /\ last' = outcome
        /\ stgTable' = [stgTable EXCEPT
                          ![idx] = StagedTable(stgTable[idx], outcome)]
        /\ processed_tables' = IF ScriptCounted(outcome)
                               THEN Append(processed_tables, idx)
                               ELSE processed_tables
        /\ idx' = NextScript(idx, outcome \notin {"ok", "missing"})
    /\ UNCHANGED <<pc, runs, today, connVars, fsVars, rawTable, martTable,
                   failed_scrapers, loaded_tables, exc, pre, result>>

\* Line 215: "if processed_tables:".
Stage3Succeeded_all(tables) == Len(tables) = NumSources

Stage3Succeeded_always(tables) == TRUE

Stage3Succeeded(tables) == tables # <<>>

\* Lines 215-218: the stage returns, or raises RuntimeError iff nothing was
\* processed.
stage_3_end ==
    /\ pc = "stage3"
    /\ idx = NumSources + 1
    /\ IF Stage3Succeeded(processed_tables)
       THEN Proceed(AfterStage(3))
       ELSE /\ Raise("Transform")
            /\ UNCHANGED <<idx, log, localVars>>
    /\ UNCHANGED <<runs, today, connVars, fsVars, storeVars, last, pre,
                   result>>

\* stage_4_create_analytics_mart, lines 226-265: every statement that can
\* raise is inside the try, whose except clause logs and re-raises.
MartOutcomes == {"missing", "read_raises", "exec_raises", "exec_dropped",
                 "no_table", "count_raises", "ok"}

\* The rows the mart script's join yields when the script has built the
\* table (line 239); there are none when it has not.
JoinRows(outcome) == IF outcome \in {"count_raises", "ok"} THEN MartRows ELSE {0}

MartSucceeded_nocount(outcome) == outcome \in {"ok", "no_table", "count_raises"}

MartSucceeded(outcome) == outcome = "ok"

\* What the script leaves of the mart table; rows is the size of its join.
MartTableAfter(old, rows, outcome) ==
    CASE outcome \in {"missing", "read_raises", "exec_raises"} -> old
      [] outcome \in {"exec_dropped", "no_table"} -> Absent
      [] OTHER -> rows

\* run() line 309 and stage_4_create_analytics_mart, lines 220-267.
stage_4_create_analytics_mart ==
    /\ pc = "call_stage4"
    /\ log' = Append(log, <<"stage", 4>>)
    /\ \E outcome \in MartOutcomes :
        /\ last' = outcome
        /\ \E rows \in JoinRows(outcome) :
              martTable' = MartTableAfter(martTable, rows, outcome)
        /\ IF MartSucceeded(outcome)
           THEN /\ pc' = AfterStage(4)
                /\ exc' = exc
           ELSE Raise("Mart")
    /\ UNCHANGED <<idx, runs, today, connVars, fsVars, rawTable, stgTable,
                   localVars, pre, result>>

\* COPY ... (HEADER, DELIMITER ','): one header line and one line per row.
ExportLines_noheader(rows) == rows

ExportLines(rows) == rows + 1

\* run() lines 310-320 and export_results, lines 269-290.  The staged
\* directory is created outside the try; COPY runs inside a try whose except
\* clause logs and re-raises.  The path is derived from the date that
\* datetime.now() gives at line 278: the date of the latest export or a
\* later one, dates being numbered in the order in which exports see them.
\* COPY cannot succeed on a table that does not exist.
\* Line 278: the name of the export file, from datetime.now() at the moment
\* of the export, here the date d and the hour h.  strftime('%Y%m%d') keeps
\* year, month and day and drops the time of day.
ExportPath_timestamp(d, h) == <<d, h>>

ExportPath(d, h) == <<d, 0>>

ExportOutcomes == {"mkdir_raises", "copy_raises", "ok"}

export_results ==
    /\ pc = "call_export"
    /\ log' = Append(log, <<"stage", 5>>)
    /\ \E outcome \in ExportOutcomes :
        /\ outcome = "ok" => martTable # Absent
        /\ last' = outcome
        /\ stagedDirExists' = IF outcome = "mkdir_raises"
                              THEN stagedDirExists ELSE TRUE
        /\ IF outcome = "ok"
           THEN \E d \in Dates, h \in Hours :
                  /\ d \in {today, today + 1}
                  /\ today' = d
                  /\ exportFile' = [exportFile EXCEPT
                                      ![ExportPath(d, h)] = ExportLines(martTable)]
           ELSE UNCHANGED <<today, exportFile>>
        /\ IF outcome = "ok"
           THEN /\ pc' = AfterStage(5)
                /\ exc' = exc
           ELSE Raise("Export")
    /\ UNCHANGED <<idx, runs, connVars, rawDirExists, rawFile, storeVars,
                   localVars, pre, result>>

\* Line 330: "if self.duckdb_conn:", whatever exception is pending.
ShouldClose_onsuccess(conn, pending) == conn # 0 /\ pending = "none"

ShouldClose(conn, pending) == conn # 0

\* Line 327: "raise" in the except clause; without a pending exception the
\* function falls off its end and returns None.
ExitKind_swallow(pending) == "returned"

ExitKind(pending) == IF pending = "none" THEN "returned" ELSE "raised"

\* What the caller of run() receives, lines 292-332: the function has no
\* return statement, so a call that completes hands back None, and a failing
\* call hands over the exception of the failing statement.  The lists of
\* failed scrapers, files and scripts are locals of the stages that are only
\* logged (lines 106-110, 160-166, 212-218): no stage outcome is handed over.
Delivered(pending) ==
    [status |-> IF pending = "none" THEN "success" ELSE "failure",
     outcomes |-> <<>>]

\* Lines 329-332: the finally clause of run() closes the handle held by the
\* object; then run() returns, or the pending exception reaches the caller.
run_finally ==
    /\ pc = "finally"
    /\ IF ShouldClose(duckdb_conn, exc)
       THEN /\ openConns' = openConns \ {duckdb_conn}
            /\ closesInRun' = closesInRun + 1
            /\ log' = Append(Append(log, <<"close", duckdb_conn>>), <<"exit", 0>>)
       ELSE /\ log' = Append(log, <<"exit", 0>>)
            /\ UNCHANGED <<openConns, closesInRun>>
    /\ pc' = ExitKind(exc)
    /\ result' = Delivered(exc)
    /\ UNCHANGED <<idx, runs, today, duckdb_conn, opensInRun, fsVars, storeVars,
                   localVars, exc, last, pre>>

Next ==
    \/ RunStart
    \/ connect_duckdb
    \/ stage_1_setup
    \/ stage_1_scraper
    \/ stage_1_end
    \/ stage_2_load
    \/ stage_2_end
    \/ stage_3_script
    \/ stage_3_end
    \/ stage_4_create_analytics_mart
    \/ export_results
    \/ run_finally

Spec == Init /\ [][Next]_vars

\* The same program in an environment that may remove raw files between two
\* calls.
NextAfterRemoval ==
    \/ RunStartAfterRemoval
    \/ connect_duckdb
    \/ stage_1_setup
    \/ stage_1_scraper
    \/ stage_1_end
    \/ stage_2_load
    \/ stage_2_end
    \/ stage_3_script
    \/ stage_3_end
    \/ stage_4_create_analytics_mart
    \/ export_results
    \/ run_finally

SpecAfterRemoval == Init /\ [][NextAfterRemoval]_vars

(***************************************************************************)
(* Vocabulary of the properties                                            *)
(***************************************************************************)
Range(seq) == {seq[j] : j \in 1..Len(seq)}

IsStageEvent(e) == e[1] = "stage"
IsScrapeEvent(e) == e[1] = "scrape"
IsLoadEvent(e) == e[1] = "load"

StageEvents == SelectSeq(log, IsStageEvent)
ScrapeEvents == SelectSeq(log, IsScrapeEvent)
LoadEvents == SelectSeq(log, IsLoadEvent)

\* stage k has been started in the current call
Started(k) == <<"stage", k>> \in Range(log)

\* this step starts stage k
StartsStage(k) == ~Started(k) /\ Started(k)'

\* the k-th event of that kind carries the number k
Numbered(evs) == \A k \in 1..Len(evs) : evs[k][2] = k

\* e occurs in the log, and before the first occurrence of f
Before(e, f) ==
    \E j \in 1..Len(log) :
        /\ log[j] = e
        /\ \A m \in 1..j : log[m] # f

FailedPcs == {"finally", "raised"}
ExitPcs == {"returned", "raised"}

FailedStageNo(e) ==
    CASE e = "Connect" -> 0
      [] e = "Extraction" -> 1
      [] e = "Load" -> 2
      [] e = "Transform" -> 3
      [] e = "Mart" -> 4
      [] OTHER -> 5

\* the load loop, the script loop has gone through all its items
LoadLoopDone == pc = "stage2" /\ idx = NumSources + 1
ScriptLoopDone == pc = "stage3" /\ idx = NumSources + 1

\* the export file of date d: the file whose name carries that date alone
ExportOf(d) == exportFile[<<d, 0>>]

StagedDirUntouched ==
    /\ stagedDirExists = pre.stagedDirExists
    /\ exportFile = pre.exportFile

\* C1: in a call of run() that succeeds or fails fatally at Load, Transform,
\* Mart Build or Export, the connection is opened exactly once and closed
\* exactly once by the time run() returns or raises; never more than once
\* at any point of a call.
C1_ConnectionOpenedAndClosedOnce ==
    /\ opensInRun <= 1
    /\ closesInRun <= 1
    /\ (pc \in ExitPcs /\ exc \in {"none", "Load", "Transform", "Mart", "Export"})
         => /\ opensInRun = 1
            /\ closesInRun = 1
            /\ <<"close", runs>> \in Range(log)
            /\ runs \notin openConns

C1_Witness ==
    /\ pc = "raised"
    /\ exc = "Mart"
    /\ runs = 2
    /\ opensInRun = 1
    /\ closesInRun = 1

\* C2: the stages of one call start in the order Extraction, Load,
\* Transform, Mart Build, Export, each at most once; a stage starts only
\* when the stage before it has gone through all its items, and after a
\* fatal error no further stage starts.
C2_StagesInFixedOrder ==
    /\ Numbered(StageEvents)
    /\ Len(StageEvents) <= 5
    /\ exc # "none" => Len(StageEvents) = FailedStageNo(exc)
    /\ Started(2) => \A s \in Sources : Before(<<"scrape", s>>, <<"stage", 2>>)
    /\ Started(3) => \A s \in Sources : Before(<<"load", s>>, <<"stage", 3>>)
    /\ Started(4) => \A s \in Sources : Before(<<"script", s>>, <<"stage", 4>>)
    /\ Started(5) => martTable # Absent

C2_Witness ==
    /\ pc = "returned"
    /\ Len(StageEvents) = 5

\* C3: the step that starts Transform is taken with a non-empty list of raw
\* tables loaded by the Load stage of the same call, each of them in the
\* store; Mart Build is called only by a step taken with a non-empty list of
\* staging tables processed by the Transform stage of the same call, each of
\* them in the store, and starts only from there.
C3_StartsTransform ==
    StartsStage(3) =>
        /\ LoadLoopDone
        /\ loaded_tables # <<>>
        /\ \A t \in Range(loaded_tables) :
              rawTable[t] # Absent /\ rawTable[t] = rawFile[t]

C3_CallsMart ==
    (pc # "call_stage4" /\ pc' = "call_stage4") =>
        /\ ScriptLoopDone
        /\ processed_tables # <<>>
        /\ \A t \in Range(processed_tables) : stgTable[t]

C3_StageGates ==
    [][/\ C3_StartsTransform
       /\ C3_CallsMart
       /\ StartsStage(4) => pc = "call_stage4"]_vars

C3_Witness ==
    /\ pc = "call_stage4"
    /\ stgTable = <<FALSE, TRUE, FALSE>>
    /\ rawTable[2] # Absent
    /\ rawTable[3] # Absent

\* C4: when the load loop is done, the call fails at Load iff no raw table
\* was loaded (created and counted) in that stage; with at least one loaded
\* Transform starts, however many of the other files were absent or failed.
\* Nothing else makes a call fail at Load.
C4_LoadStageEnd ==
    LoadLoopDone =>
        /\ loaded_tables = <<>> <=> (exc' = "Load" /\ pc' = "finally")
        /\ loaded_tables # <<>> =>
              (StartsStage(3) /\ pc' = "stage3" /\ exc' = "none")

C4_LoadFatalIffNothingLoaded ==
    [][/\ C4_LoadStageEnd
       /\ (exc # "Load" /\ exc' = "Load") => LoadLoopDone]_vars

C4_Witness ==
    /\ pc = "stage3"
    /\ idx = 1
    /\ runs = 1
    /\ last = "create_raises"
    /\ rawFile[2] = Absent
    /\ rawTable[1] # Absent

\* C5: when the script loop is done, the call fails at Transform iff no
\* staging table resulted from that stage; with at least one, Mart Build is
\* called, however many of the other scripts were missing or raised.
\* Nothing else makes a call fail at Transform.
C5_TransformStageEnd ==
    ScriptLoopDone =>
        /\ processed_tables = <<>> <=> (exc' = "Transform" /\ pc' = "finally")
        /\ processed_tables # <<>> => (pc' = "call_stage4" /\ exc' = "none")

C5_TransformFatalIffNothingStaged ==
    [][/\ C5_TransformStageEnd
       /\ (exc # "Transform" /\ exc' = "Transform") => ScriptLoopDone]_vars

C5_Witness ==
    /\ pc = "call_stage4"
    /\ runs = 1
    /\ last = "missing"
    /\ stgTable = <<TRUE, FALSE, FALSE>>

\* C6: the Extraction stage never aborts the call: no fatal error comes out
\* of it, every source is attempted exactly once in order whichever of them
\* fail, and the Load stage is started afterwards.
C6_ExtractionNeverAborts ==
    /\ exc # "Extraction"
    /\ Numbered(ScrapeEvents)
    /\ Started(2) => Len(ScrapeEvents) = NumSources
    /\ (Started(1) /\ pc # "stage1") => Started(2)

\* C7: when the pending error reaches the caller the connection has been
\* closed, the close being the last thing the call did, and the call returns
\* normally iff all five stages were started and the last of them, Export,
\* completed.
C7_CloseBeforeRaise ==
    /\ pc = "raised" =>
          /\ exc # "none"
          /\ openConns = {}
          /\ opensInRun = 1 =>
                /\ Len(log) >= 2
                /\ log[Len(log) - 1] = <<"close", runs>>
    /\ pc \in ExitPcs =>
          (pc = "returned" <=> (Len(StageEvents) = 5 /\ last = "ok"))

C7_Witness ==
    /\ pc = "raised"
    /\ exc = "Export"
    /\ log[Len(log) - 1] = <<"close", runs>>

\* C8: Mart Build and Export are fail-fast: a missing mart script, an error
\* while reading or executing it, or an unreadable row count fails the call
\* and Export is never started; an export error fails the call; a call that
\* returns has the mart table and an export file written from it.
C8_MartAndExportFailFast ==
    /\ pc = "call_export" => (last = "ok" /\ martTable # Absent)
    /\ (Started(4) /\ ~Started(5) /\ last # "ok") =>
          (exc = "Mart" /\ pc \in FailedPcs)
    /\ exc = "Mart" => ~Started(5)
    /\ (Started(5) /\ last # "ok") => (exc = "Export" /\ pc \in FailedPcs)
    /\ pc = "returned" =>
          /\ martTable # Absent
          /\ today \in Dates
          /\ ExportOf(today) = ExportLines(martTable)

C8_Witness ==
    /\ pc = "raised"
    /\ exc = "Mart"
    /\ last = "count_raises"
    /\ martTable # Absent

\* C9: when the load loop is done with nothing loaded, the call fails at
\* Load; a call that failed at Load never starts Transform, Mart Build or
\* Export, and the staged directory and its files are as they were when the
\* call began.
C9_FailedAtLoad ==
    exc = "Load" =>
        /\ pc \in FailedPcs
        /\ ~Started(3) /\ ~Started(4) /\ ~Started(5)
        /\ StagedDirUntouched

C9_NothingLoadedLeavesStagedDir ==
    [][/\ (LoadLoopDone /\ loaded_tables = <<>>) => exc' = "Load"
       /\ C9_FailedAtLoad']_vars

C9_Witness ==
    /\ pc = "raised"
    /\ exc = "Load"
    /\ rawFile[1] # Absent
    /\ pre.exportFile[<<1, 0>>] # Absent

\* C10: the load loop takes each of the three pairs exactly once, in the
\* declared order; an absent file is skipped, an error in the drop, the
\* create or the count keeps only that table out of the loaded set, and in
\* both cases the loop goes on to the next pair with no error pending.
C10_LoadLoopState ==
    /\ Numbered(LoadEvents)
    /\ pc = "stage2" => Len(LoadEvents) = idx - 1
    /\ (Started(2) /\ pc # "stage2") => Len(LoadEvents) = NumSources
    /\ Range(loaded_tables) \subseteq 1..Len(LoadEvents)
    /\ \A j, k \in 1..Len(loaded_tables) :
          j < k => loaded_tables[j] < loaded_tables[k]

C10_LoadLoopStep ==
    (pc = "stage2" /\ idx \in Sources) =>
        /\ pc' = "stage2"
        /\ exc' = "none"
        /\ idx' = idx + 1
        /\ log' = Append(log, <<"load", idx>>)
        /\ last' = "absent" <=> rawFile[idx] = Absent
        /\ loaded_tables' = IF last' = "ok"
                            THEN Append(loaded_tables, idx)
                            ELSE loaded_tables
        /\ last' = "absent" => rawTable' = rawTable
        /\ \A s \in Sources \ {idx} : rawTable'[s] = rawTable[s]

C10_LoadLoopIsolatesFailures ==
    [][C10_LoadLoopState' /\ C10_LoadLoopStep]_vars

C10_Witness ==
    /\ pc = "stage2"
    /\ idx = NumSources + 1
    /\ loaded_tables = <<3>>
    /\ rawFile[1] # Absent
    /\ rawFile[2] = Absent

IsScriptEvent(e) == e[1] = "script"

ScriptEvents == SelectSeq(log, IsScriptEvent)

\* C11: the script loop takes each of the three scripts exactly once, in
\* the declared order; a missing script and a script that raises (its raw
\* table was never loaded, for one) keep only that script out of the
\* processed set, and the loop goes on to the next script with no error
\* pending.
C11_ScriptLoopState ==
    /\ Numbered(ScriptEvents)
    /\ pc = "stage3" => Len(ScriptEvents) = idx - 1
    /\ (Started(3) /\ pc # "stage3") => Len(ScriptEvents) = NumSources
    /\ ~Started(3) => ScriptEvents = <<>>
    /\ Range(processed_tables) \subseteq 1..Len(ScriptEvents)
    /\ \A j, k \in 1..Len(processed_tables) :
          j < k => processed_tables[j] < processed_tables[k]

C11_ScriptLoopStep ==
    (pc = "stage3" /\ idx \in Sources) =>
        /\ pc' = "stage3"
        /\ exc' = "none"
        /\ idx' = idx + 1
        /\ log' = Append(log, <<"script", idx>>)
        /\ rawTable[idx] = Absent => last' # "ok"
        /\ processed_tables' = IF last' = "ok"
                               THEN Append(processed_tables, idx)
                               ELSE processed_tables
        /\ last' = "missing" => stgTable' = stgTable
        /\ \A s \in Sources \ {idx} : stgTable'[s] = stgTable[s]

C11_ScriptsInOrderIsolated ==
    [][C11_ScriptLoopState' /\ C11_ScriptLoopStep]_vars

C11_Witness ==
    /\ pc = "stage3"
    /\ idx = NumSources + 1
    /\ processed_tables = <<3>>
    /\ rawTable[1] = Absent
    /\ rawTable[2] # Absent

\* the sources other than s
Others(s) == Sources \ {s}

\* C12: a call in which exactly one adapter failed goes on to Load; with
\* the other two sources loaded Transform starts, with the other two
\* transformed Mart Build is called, and the step after the call starts Mart
\* Build.  In the first call on a fresh directory the adapter that failed is
\* the one whose raw file is absent, and the call with that file absent and
\* the other two sources extracted, loaded and transformed calls Mart Build.
C12_AfterExtraction ==
    (pc = "stage1" /\ idx = NumSources + 1 /\ Len(failed_scrapers) = 1) =>
        (StartsStage(2) /\ pc' = "stage2" /\ exc' = "none")

C12_AfterLoad ==
    (LoadLoopDone /\ \E s \in Sources : Others(s) \subseteq Range(loaded_tables)) =>
        (StartsStage(3) /\ pc' = "stage3" /\ exc' = "none")

C12_AfterTransform ==
    (ScriptLoopDone /\ \E s \in Sources : Others(s) \subseteq Range(processed_tables)) =>
        (pc' = "call_stage4" /\ exc' = "none")

C12_FirstCall ==
    (/\ runs = 1
     /\ ScriptLoopDone
     /\ \E s \in Sources :
           /\ rawFile[s] = Absent
           /\ \A t \in Others(s) :
                 /\ rawFile[t] # Absent
                 /\ rawTable[t] = rawFile[t]
                 /\ t \in Range(processed_tables)) =>
        (pc' = "call_stage4" /\ exc' = "none")

C12_OneAdapterFailsMartStarts ==
    [][/\ C12_AfterExtraction
       /\ C12_AfterLoad
       /\ C12_AfterTransform
       /\ C12_FirstCall
       /\ pc = "call_stage4" => StartsStage(4)]_vars

C12_Witness ==
    /\ runs = 1
    /\ Started(4)
    /\ rawFile[2] = Absent
    /\ \A t \in Others(2) :
          rawFile[t] # Absent /\ rawTable[t] = rawFile[t] /\ stgTable[t]
    /\ ~stgTable[2]

\* C13: a raw table that is loaded holds afterwards exactly the rows of its
\* file, whatever it held before: loading again a file whose rows the table
\* already holds, as a second call on the same inputs does, leaves every raw
\* table with the row count it had.  A staging table that is rebuilt exists
\* afterwards as it did before, and no other table is touched.
C13_RawRebuilt ==
    (pc = "stage2" /\ idx \in Sources /\ last' = "ok") =>
        /\ rawTable'[idx] = rawFile[idx]
        /\ rawTable[idx] = rawFile[idx] => rawTable' = rawTable

C13_StagingRebuilt ==
    (pc = "stage3" /\ idx \in Sources /\ last' = "ok") =>
        /\ stgTable'[idx]
        /\ stgTable[idx] => stgTable' = stgTable

C14_RunDeliversStatusAndOutcomes ==
    pc \in ExitPcs =>
        /\ result.status \in {"success", "failure"}
        /\ result.status = "success" <=> pc = "returned"
        /\ Len(result.outcomes) = Len(StageEvents)

\* The state of the run that the spec's state machine speaks of: the stage
\* the call is in, FAILED once the error has reached the caller, DONE once
\* run() has returned, NONE before the first call.
StageName(k) ==
    CASE k = 0 -> "INIT"
      [] k = 1 -> "EXTRACTING"
      [] k = 2 -> "LOADING"
      [] k = 3 -> "TRANSFORMING"
      [] k = 4 -> "MART_BUILDING"
      [] OTHER -> "EXPORTING"

RunState ==
    CASE pc = "idle" -> "NONE"
      [] pc = "returned" -> "DONE"
      [] pc = "raised" -> "FAILED"
      [] OTHER -> StageName(Len(StageEvents))

Transitions ==
    {<<"NONE", "INIT">>, <<"DONE", "INIT">>, <<"FAILED", "INIT">>,
     <<"INIT", "EXTRACTING">>, <<"EXTRACTING", "LOADING">>,
     <<"LOADING", "TRANSFORMING">>, <<"TRANSFORMING", "MART_BUILDING">>,
     <<"MART_BUILDING", "EXPORTING">>, <<"EXPORTING", "DONE">>,
     <<"LOADING", "FAILED">>, <<"TRANSFORMING", "FAILED">>,
     <<"MART_BUILDING", "FAILED">>, <<"EXPORTING", "FAILED">>}

\* C15: a run moves INIT, EXTRACTING, LOADING, TRANSFORMING, MART_BUILDING,
\* EXPORTING, DONE, and becomes FAILED only from LOADING, TRANSFORMING,
\* MART_BUILDING or EXPORTING; DONE and FAILED are left only by a new run,
\* and the connection is closed on the step into either of them and on no
\* other step.
C15_RunStateMachine ==
    [][/\ RunState' # RunState => <<RunState, RunState'>> \in Transitions
       /\ (RunState' # RunState /\ RunState' \in {"DONE", "FAILED"}) =>
             closesInRun' = closesInRun + 1
       /\ closesInRun' > closesInRun => RunState' \in {"DONE", "FAILED"}]_vars

\* C16: when the connection cannot be opened the call fails at once: no
\* stage is started, the error is on its way to the caller, nothing was
\* opened in the call and no close is performed in it.
C16_ConnectFailureIsImmediate ==
    exc = "Connect" =>
        /\ pc \in FailedPcs
        /\ StageEvents = <<>>
        /\ opensInRun = 0
        /\ closesInRun = 0

\* C17: a scrape() that raises is swallowed by the loop and writes nothing:
\* the raw files are as they were, and since a raw file changes only in the
\* iteration of its own source, and only when that one succeeds, the file is
\* as it was before the call.  The Load stage then loads the file that is
\* there under that name, whichever call wrote it, and skips it only if
\* there is none.
C17_ScrapeRaises ==
    (pc = "stage1" /\ idx \in Sources /\ last' = "scrape_raises") =>
        /\ rawFile' = rawFile
        /\ failed_scrapers' = Append(failed_scrapers, idx)
        /\ pc' = "stage1"
        /\ exc' = "none"

C17_OnlyOwnScraperWrites ==
    \A s \in Sources :
        (pc' # "connect" /\ rawFile'[s] # rawFile[s]) =>
            (pc = "stage1" /\ idx = s /\ last' = "ok")

C17_LoadsWhatExists ==
    (pc = "stage2" /\ idx \in Sources /\ rawFile[idx] # Absent) =>
        /\ last' \in LoadOutcomes
        /\ last' = "ok" =>
              /\ rawTable'[idx] = rawFile[idx]
              /\ loaded_tables' = Append(loaded_tables, idx)

C17_FailedScrapeLeavesFile ==
    [][C17_ScrapeRaises /\ C17_OnlyOwnScraperWrites /\ C17_LoadsWhatExists]_vars

C17_Witness ==
    /\ runs = 2
    /\ pc = "stage1"
    /\ idx = 2
    /\ last = "scrape_raises"
    /\ rawFile[1] # Absent
    /\ rawTable[1] = rawFile[1]

\* C18: a script joins the processed set only in an iteration in which it
\* executed without error and the row count of its table was read; a script
\* that executes without error but leaves no table of the derived name is
\* handled as a failed script: it is not added and the loop goes on.
C18_ScriptStep ==
    (pc = "stage3" /\ idx \in Sources) =>
        /\ processed_tables' # processed_tables =>
              /\ last' = "ok"
              /\ processed_tables' = Append(processed_tables, idx)
              /\ stgTable'[idx]
        /\ last' = "ok" => processed_tables' # processed_tables
        /\ last' = "no_table" =>
              /\ ~stgTable'[idx]
              /\ processed_tables' = processed_tables
              /\ pc' = "stage3"
              /\ exc' = "none"

C18_CountedOnlyIfCountRead ==
    [][/\ C18_ScriptStep
       /\ processed_tables' \notin {processed_tables, <<>>} => pc = "stage3"]_vars

C18_Witness ==
    /\ pc = "stage3"
    /\ idx = 3
    /\ last = "no_table"
    /\ processed_tables = <<1>>
    /\ ~stgTable[2]
    /\ rawTable[2] # Absent

\* C19: the export that completes writes a file of one header line plus one
\* line for each row the mart table holds (nine lines for eight rows), which
\* is what the file holds when run() has returned; an export file changes
\* only in the Export stage, which is reached only in a call whose Mart
\* Build completed without error.
C19_ExportStep ==
    (pc = "call_export" /\ last' = "ok") =>
        /\ today' \in Dates
        /\ exportFile'[<<today', 0>>] = martTable + 1
        /\ martTable' = martTable
        /\ exc' = "none"

C19_WrittenOnlyAfterMart ==
    exportFile' # exportFile =>
        /\ pc = "call_export"
        /\ Started(4)
        /\ last = "ok"
        /\ exc = "none"
        /\ martTable # Absent

C19_Returned ==
    pc = "returned" =>
        /\ martTable \in Nat
        /\ ExportOf(today) = martTable + 1

C19_ExportHoldsHeaderPlusRows ==
    [][/\ C19_ExportStep
       /\ C19_WrittenOnlyAfterMart
       /\ C19_Returned'
       /\ ExportLines(8) = 9]_vars

C19_Witness ==
    /\ pc = "returned"
    /\ runs = 1
    /\ martTable = 2
    /\ ExportOf(1) = 3

\* the files that exist under data/staged
ExportFiles == {p \in Paths : exportFile[p] # Absent}

\* C20: an export that completes writes the one file named after its date,
\* with the lines of the mart of that call, and leaves every other file as it
\* was: on the date of the previous export it replaces that export's file, on
\* a later date the earlier file stays untouched.  So there is one file for
\* each date an export completed on, named by that date alone.
C20_ExportStep ==
    (pc = "call_export" /\ last' = "ok") =>
        /\ today' \in Dates
        /\ exportFile' = [exportFile EXCEPT
                            ![<<today', 0>>] = ExportLines(martTable)]
        /\ today' = today => ExportFiles' = ExportFiles
        /\ (today' # today /\ today \in Dates) =>
              /\ exportFile'[<<today, 0>>] = exportFile[<<today, 0>>]
              /\ exportFile[<<today, 0>>] # Absent
              /\ ExportFiles' = ExportFiles \cup {<<today', 0>>}

C20_OneFilePerDate ==
    /\ \A p \in ExportFiles : p[2] = 0 /\ p[1] <= today
    /\ Cardinality(ExportFiles) = today

C20_ExportPathIsTheDate ==
    [][C20_ExportStep /\ C20_OneFilePerDate']_vars

C20_Witness ==
    /\ runs = 2
    /\ pc = "returned"
    /\ today = 1
    /\ pre.exportFile[<<1, 0>>] = 2
    /\ ExportOf(1) = 3
    /\ ExportFiles = {<<1, 0>>}

\* C21: the load iteration of a pair whose file is absent changes no raw
\* table and adds nothing to the loaded set, and goes on to the next pair;
\* a raw table changes only in the load iteration of its own pair, and only
\* when the file is there.  So the table of an absent file is as it was
\* before the call: absent, or with the rows an earlier call loaded.
C21_AbsentFileStep ==
    (pc = "stage2" /\ idx \in Sources /\ rawFile[idx] = Absent) =>
        /\ rawTable' = rawTable
        /\ loaded_tables' = loaded_tables
        /\ last' = "absent"
        /\ pc' = "stage2"
        /\ exc' = "none"

C21_OnlyOwnLoadWrites ==
    \A s \in Sources :
        rawTable'[s] # rawTable[s] =>
            (pc = "stage2" /\ idx = s /\ rawFile[s] # Absent)

C21_LoadedHaveFiles ==
    \A t \in Range(loaded_tables) : rawFile[t] # Absent

C21_AbsentFileLeavesTable ==
    [][/\ C21_AbsentFileStep
       /\ C21_OnlyOwnLoadWrites
       /\ C21_LoadedHaveFiles']_vars

C21_Witness ==
    /\ runs = 2
    /\ pc = "stage2"
    /\ idx = 2
    /\ last = "absent"
    /\ rawFile[1] = Absent
    /\ rawTable[1] # Absent
    /\ loaded_tables = <<>>

\* C22: a load iteration whose file is there and whose CREATE TABLE fails
\* leaves no table of that name, whatever the table held before: the drop
\* that went before is not undone.  The table is not added to the loaded
\* set, and since no later step of the stage touches it, it is still absent
\* when the stage ends.
C22_CreateFailsStep ==
    (pc = "stage2" /\ idx \in Sources /\ last' = "create_raises") =>
        /\ rawFile[idx] # Absent
        /\ rawTable'[idx] = Absent
        /\ loaded_tables' = loaded_tables
        /\ pc' = "stage2"
        /\ exc' = "none"

C22_NotTouchedLater ==
    \A s \in Sources :
        rawTable'[s] # rawTable[s] => (pc = "stage2" /\ idx = s)

C22_FailedCreateLeavesNoTable ==
    [][C22_CreateFailsStep /\ C22_NotTouchedLater]_vars

C22_Witness ==
    /\ runs = 2
    /\ pc = "stage2"
    /\ idx = 2
    /\ last = "create_raises"
    /\ rawFile[1] # Absent
    /\ rawTable[1] = Absent
    /\ stgTable[1]

\* C23: over any sequence of calls on the object, every close is a close of
\* the connection opened in the same call, a call whose connect failed
\* closes nothing, and the closes of a call never outnumber its opens.
C23_CloseOnlyOwnConnection ==
    /\ closesInRun <= opensInRun
    /\ \A j \in 1..Len(log) : log[j][1] = "close" => log[j][2] = runs
    /\ exc = "Connect" => \A j \in 1..Len(log) : log[j][1] # "close"

====
